---- MODULE Spec2Model ----
(***************************************************************************)
(* The firmware-upgrade workflows of the playbooks repository:             *)
(*   Junos_pyez_os.main, os_only.main, os_full.main, pyez_os.main and      *)
(*   precheck.main, each a sequential script driving one device session.   *)
(* One run of one script is one behaviour.  The device, the operator and   *)
(* the network are the environment: every value they hand to the script    *)
(* (command output, checksum text, install result, the typed answer, a     *)
(* reachability probe) is drawn at the step that reads it.                 *)
(* Text is modelled as a sequence of one-character strings.                *)
(***************************************************************************)
EXTENDS Integers, Sequences, FiniteSets, TLC

VARIABLES
    wf,              \* which script runs
    current_os,      \* what dev.facts reports to Junos_pyez_os ("raise": reading fails)
    pc,              \* position in main
    outcome,         \* "running", "completed", "aborted" (early return), "crashed"
    firmware_list,   \* the names typed at the firmware prompt
    firmware_md5,    \* the loop entries: (name, expected checksum) pairs
    idx,             \* position of the firmware loop (0 before the loop)
    dev,             \* the handle main holds: "none", "open", "closed"
    open_sessions,   \* sessions opened and not closed so far
    total_links,     \* len(interfaces_status), until the pre-check starts
    active_uplinks,  \* len(active_uplinks), until the pre-check starts
    prompted,        \* the confirmation prompt was shown
    answer,          \* what the operator typed at the prompt
    pre_saved,       \* pre_check.txt written
    post_saved,      \* post_check.txt written
    diff_saved,      \* version_comparison.txt written
    success,         \* "Upgrade process completed successfully." printed
    art,             \* per loop entry: what was done for that artifact
    probes,          \* unreachable probes seen in the current wait
    wait,            \* the sleeps of the current wait and its last probe
    files,           \* the files written or staged so far: directory, name, content
    fn,              \* the function under analysis ("none" while main runs)
    fn_in,           \* its arguments
    fn_out           \* its result (NotRun before the call)

vars == <<wf, current_os, pc, outcome, firmware_list, firmware_md5, idx, dev, open_sessions,
          total_links, active_uplinks, prompted, answer, pre_saved, post_saved,
          diff_saved, success, art, probes, wait, files, fn, fn_in, fn_out>>

\* the state of a function call analysed on its own
fnvars == <<fn, fn_in, fn_out>>

----------------------------------------------------------------------------
(* Bounds of the model *)

MaxFirmware == 2
MaxIfaces == 2
MaxProbes == 2

(* Program constants *)

DigestLen == 32

----------------------------------------------------------------------------
(* Text helpers *)

UpperLetters == <<"A","B","C","D","E","F","G","H","I","J","K","L","M",
                  "N","O","P","Q","R","S","T","U","V","W","X","Y","Z">>
LowerLetters == <<"a","b","c","d","e","f","g","h","i","j","k","l","m",
                  "n","o","p","q","r","s","t","u","v","w","x","y","z">>

\* str.lower() on one character
LowerChar(c) ==
    IF \E i \in 1..Len(UpperLetters) : UpperLetters[i] = c
    THEN LowerLetters[CHOOSE i \in 1..Len(UpperLetters) : UpperLetters[i] = c]
    ELSE c

\* str.lower()
Lower(s) == [i \in 1..Len(s) |-> LowerChar(s[i])]

IsSpace(c) == c \in {" ", "\t", "\n"}

\* str.strip()
Strip(s) ==
    LET keep == {i \in 1..Len(s) : ~IsSpace(s[i])}
        first == CHOOSE i \in keep : \A j \in keep : i <= j
        last == CHOOSE i \in keep : \A j \in keep : j <= i
    IN  IF keep = {} THEN <<>> ELSE SubSeq(s, first, last)

Yes == <<"y","e","s">>

\* faulty variant of Declined: a substring test, "yes" not in answer.strip().lower()
Declined_substring(ans) ==
    LET a == Lower(Strip(ans))
    IN  ~\E i \in 1..Len(a) : i + 2 <= Len(a) /\ SubSeq(a, i, i + 2) = Yes

\* the test of the confirmation prompt: input(...).strip().lower() != "yes"
Declined(ans) == Lower(Strip(ans)) # Yes

\* the character class [a-fA-F0-9]
IsHex(c) ==
    c \in {"0","1","2","3","4","5","6","7","8","9",
           "a","b","c","d","e","f","A","B","C","D","E","F"}

NoDigest == <<>>

\* re.search(r'[a-fA-F0-9]{32}', output): the leftmost run of 32 hex digits
ExtractDigest(output) ==
    LET starts == {i \in 1..(Len(output) - DigestLen + 1) :
                      \A k \in 0..(DigestLen - 1) : IsHex(output[i + k])}
        first == CHOOSE i \in starts : \A j \in starts : i <= j
    IN  IF starts = {} THEN NoDigest ELSE SubSeq(output, first, first + DigestLen - 1)

----------------------------------------------------------------------------
(* The values the environment supplies *)

Workflows == {"Junos_pyez_os", "os_only", "os_full", "pyez_os", "precheck"}

\* scripts that ask for an expected MD5 and verify it
VerifyingWorkflows == {"Junos_pyez_os", "os_only", "pyez_os"}

\* scripts that keep the firmware in a dict keyed by name
DictWorkflows == {"Junos_pyez_os", "os_only"}

\* scripts that drive the device through PyEZ
PyezWorkflows == {"Junos_pyez_os", "pyez_os"}

FirmwareNames == {"junos-21.4R3-S5.4.tgz", "image.tgz"}

NoVersion == "none"

\* re.search(os_version_regex, name): the version inside a file name
ExtractVersion(name) ==
    IF name = "junos-21.4R3-S5.4.tgz" THEN "21.4R3-S5.4" ELSE NoVersion

\* what dev.facts reports ("raise": reading the facts fails)
DeviceVersions == {"21.4R3-S5.4", "20.2R1-S1.1", "raise"}

Md5Lower == [i \in 1..DigestLen |-> IF i % 2 = 1 THEN "a" ELSE "1"]
Md5Upper == [i \in 1..DigestLen |-> IF i % 2 = 1 THEN "A" ELSE "1"]
Md5Other == [i \in 1..DigestLen |-> IF i % 2 = 1 THEN "b" ELSE "2"]
ShortHex == [i \in 1..(DigestLen - 1) |-> "a"]

NoChecksum == <<>>

ExpectedChecksums == {Md5Lower, Md5Upper}

\* the text a checksum tool wraps around the digest
Wrap(d) == <<"M","D","5"," ","(","f","w",")"," ","="," ">> \o d

NoSuchFile == <<"N","o"," ","s","u","c","h"," ","f","i","l","e">>

RawOutputs == {Wrap(Md5Lower), Wrap(Md5Upper), Wrap(Md5Other), Wrap(ShortHex), NoSuchFile}

Answers == { <<"y","e","s">>, <<" ","Y","e","S"," ">>, <<"n","o">>, <<>>,
             <<"y","e","s","!">> }

\* one parsed interface: (admin_up, link_up, is_uplink)
IfaceKinds == { [admin_up |-> TRUE, link_up |-> TRUE, is_uplink |-> TRUE],
                [admin_up |-> FALSE, link_up |-> TRUE, is_uplink |-> TRUE],
                [admin_up |-> TRUE, link_up |-> TRUE, is_uplink |-> FALSE] }

\* parsed interface tables, as sequences of up to MaxIfaces entries
IfaceTables == UNION { [1..n -> IfaceKinds] : n \in 0..MaxIfaces }

\* uplink_candidates / active_uplinks of main
UplinkCandidates(t) == {i \in DOMAIN t : t[i].is_uplink}
ActiveUplinks(t) == {i \in UplinkCandidates(t) : t[i].admin_up /\ t[i].link_up}

----------------------------------------------------------------------------
(* The firmware loop's entries *)

RECURSIVE DictKeys(_)
\* the keys of firmware_md5, in insertion order
DictKeys(list) ==
    IF list = <<>> THEN <<>>
    ELSE LET front == DictKeys(SubSeq(list, 1, Len(list) - 1))
             last == list[Len(list)]
         IN  IF \E i \in 1..Len(front) : front[i] = last THEN front
             ELSE Append(front, last)

\* firmware_md5[name]: the checksum typed last for that name
DictValue(list, md5s, name) ==
    md5s[CHOOSE i \in 1..Len(list) :
            /\ list[i] = name
            /\ \A j \in 1..Len(list) : list[j] = name => j <= i]

\* the (firmware, expected_md5) pairs the loop of main iterates over, built
\* from the typed names and the checksum typed for each
BuildItems(w, list, md5s) ==
    IF w \in DictWorkflows
    THEN LET keys == DictKeys(list)
         IN  [i \in 1..Len(keys) |->
                 [name |-> keys[i], expected |-> DictValue(list, md5s, keys[i])]]
    ELSE [i \in 1..Len(list) |-> [name |-> list[i], expected |-> md5s[i]]]

NoArt == [exists |-> "unknown", transfers |-> 0, transfer_ok |-> FALSE,
          raw |-> <<>>, device_md5 |-> NoDigest, verified |-> "none",
          installs |-> 0, install_result |-> "none", reboots |-> 0,
          reachable |-> FALSE, reconnected |-> FALSE]

\* the wait before any sleep or probe
NoWait == [initial_sleeps |-> 0, poll_sleeps |-> 0, last_probe |-> "none"]

\* fn_out before the function under analysis was called; afterwards fn_out
\* is the one-element sequence holding the result
NotRun == <<>>

\* the files main writes and the contents it writes to them
PreCheckPath == "pre_check.txt"
PostCheckPath == "post_check.txt"
DiffPath == "version_comparison.txt"
PreCheckOutput == "pre_check_output"
PostCheckOutput == "post_check_output"
Changes == "changes"

\* the directories: the working directory of the script, /var/tmp/ on the device
LocalDir == "."
DeviceDir == "/var/tmp/"
FirmwareImage == "firmware image"

\* faulty variant of WriteFile: path and content swapped
WriteFile_swapped(fs, dir, name, content) ==
    {f \in fs : ~(f.dir = dir /\ f.name = content)}
        \cup {[dir |-> dir, name |-> content, content |-> name]}

\* open(path, 'w') then write(content): the file is replaced
WriteFile(fs, dir, name, content) ==
    {f \in fs : ~(f.dir = dir /\ f.name = name)}
        \cup {[dir |-> dir, name |-> name, content |-> content]}

\* faulty variant of AbortKeeps: the abort path removes what the run produced
AbortKeeps_cleanup(fs) == {}

\* what an early return or an uncaught exception does to the files: nothing
AbortKeeps(fs) == fs

----------------------------------------------------------------------------
(* Initial state: the prompts of main have been answered *)

Init ==
    /\ wf \in Workflows
    /\ firmware_list \in UNION { [1..n -> FirmwareNames] :
                                   n \in 1..(IF wf = "pyez_os" THEN 1 ELSE MaxFirmware) }
    /\ \E md5s \in [1..Len(firmware_list) ->
                        IF wf \in VerifyingWorkflows THEN ExpectedChecksums
                        ELSE {NoChecksum}] :
          firmware_md5 = BuildItems(wf, firmware_list, md5s)
    /\ current_os \in IF wf = "Junos_pyez_os" THEN DeviceVersions ELSE {NoVersion}
    /\ pc = "connect"
    /\ outcome = "running"
    /\ idx = 0
    /\ dev = "none"
    /\ open_sessions = 0
    /\ total_links = 0
    /\ active_uplinks = 0
    /\ prompted = FALSE
    /\ answer = <<>>
    /\ pre_saved = FALSE
    /\ post_saved = FALSE
    /\ diff_saved = FALSE
    /\ success = FALSE
    /\ art = [i \in 1..Len(firmware_md5) |-> NoArt]
    /\ probes = 0
    /\ wait = NoWait
    /\ files = {}
    /\ fn = "none"
    /\ fn_in = <<>>
    /\ fn_out = NotRun

----------------------------------------------------------------------------
(* Decisions of main *)

\* whether main shows the confirmation prompt for this uplink assessment
GateRequired(w, n, active) ==
    IF w = "Junos_pyez_os" THEN n = 1 \/ (n = 2 /\ active = 1) ELSE TRUE

\* the step main takes after staging an artifact
AfterStage(w) ==
    IF w = "Junos_pyez_os" THEN "reopen"
    ELSE IF w = "os_full" THEN "install"
    ELSE "verify"

\* whether a failed transfer makes main return
AbortsOnTransferFailure(w) == w = "os_only"

\* whether a failed install makes main return
AbortsOnInstallFailure(w) == w \in {"os_only", "os_full"}

\* faulty variant of ChecksumDiffers: the test inverted
ChecksumDiffers_inverted(device_md5, expected_md5) == device_md5 = expected_md5

\* the comparison of validate_firmware: device_md5 != expected_md5
ChecksumDiffers(device_md5, expected_md5) == device_md5 # expected_md5

\* faulty variant of VerifyResult: an output without a digest falls through to success
VerifyResult_noMatchOk(raw, expected_md5) ==
    LET device_md5 == ExtractDigest(raw)
    IN  IF device_md5 # NoDigest /\ device_md5 # expected_md5 THEN "mismatch"
        ELSE "ok"

\* the verdict of validate_firmware on the raw checksum output
VerifyResult(raw, expected_md5) ==
    LET device_md5 == ExtractDigest(raw)
    IN  IF device_md5 = NoDigest THEN "unavailable"
        ELSE IF ChecksumDiffers(device_md5, expected_md5) THEN "mismatch"
        ELSE "ok"

\* what the install request can report to each kind of script
InstallResults(w) ==
    IF w \in PyezWorkflows
    THEN {"ok", "false", "RpcError", "CommitError", "Exception"}
    ELSE {"ok", "false", "Exception"}

\* faulty variant of NextIndex: the loop does not advance
NextIndex_stuck(i, n) == i

\* the loop entry main handles next
NextIndex(i, n) == IF i < n THEN i + 1 ELSE i

\* faulty variant of AfterProbe: the loop exits after any probe
AfterProbe_once(reachable) == "reconnect"

\* faulty variant of AfterProbe: an unreachable probe ends the run
AfterProbe_giveup(reachable) == IF reachable THEN "reconnect" ELSE "done"

\* while not is_device_reachable(...): time.sleep(30)
AfterProbe(reachable) == IF reachable THEN "reconnect" ELSE "sleep_poll"

\* faulty variant of AfterReconnectFailure: the connection is tried again
AfterReconnectFailure_retry(w, more) == "reconnect"

\* where main goes when the reconnection failed; os_full.main tests the
\* handle only after the loop and starts the next loop entry with None
AfterReconnectFailure(w, more) ==
    IF w = "os_full" /\ more THEN "stage" ELSE "done"

\* where main goes once the loop entry idx is finished
AfterArtifact(w, i, n) ==
    IF i < n THEN "stage"
    ELSE IF w = "os_only" THEN "close"
    ELSE "post_check"

----------------------------------------------------------------------------
(* Ways a step ends the run *)

\* main returns early, after closing the session when closes is TRUE
Return(closes) ==
    /\ pc' = "done"
    /\ outcome' = "aborted"
    /\ dev' = IF closes THEN "closed" ELSE dev
    /\ open_sessions' = IF closes /\ dev = "open" THEN open_sessions - 1 ELSE open_sessions
    /\ files' = AbortKeeps(files)

\* an exception no handler catches leaves main
Crash ==
    /\ pc' = "done"
    /\ outcome' = "crashed"
    /\ files' = AbortKeeps(files)
    /\ UNCHANGED <<dev, open_sessions>>

\* main goes on with the same session
Goto(label) ==
    /\ pc' = label
    /\ UNCHANGED <<outcome, dev, open_sessions, files>>

----------------------------------------------------------------------------
(* Steps of main *)

\* establish_ssh_connection at the start of main
Connect ==
    /\ pc = "connect"
    /\ \E ok \in BOOLEAN :
          IF ok
          THEN /\ dev' = "open"
               /\ open_sessions' = open_sessions + 1
               /\ outcome' = outcome
               /\ pc' = IF wf = "Junos_pyez_os" THEN "version_check"
                        ELSE IF wf = "os_only" THEN "stage"
                        ELSE "uplink_check"
               /\ idx' = IF wf = "os_only" THEN 1 ELSE idx
               /\ files' = files
          ELSE /\ Return(FALSE)
               /\ idx' = idx
    /\ UNCHANGED fnvars
    /\ UNCHANGED <<wf, current_os, firmware_list, firmware_md5, total_links, active_uplinks,
                   prompted, answer, pre_saved, post_saved, diff_saved, success,
                   art, probes, wait>>

\* faulty variant of validate_junos_os: the device is never up to date
validate_junos_os_never(current, extracted_os) == FALSE

\* validate_junos_os(dev, extracted_os): the reported version is the one in
\* the file name; a failure to read the facts is caught and gives False
validate_junos_os(current, extracted_os) == current # "raise" /\ current = extracted_os

\* Junos_pyez_os: the version parsed from the first firmware name against dev.facts
VersionCheck ==
    /\ pc = "version_check"
    /\ LET extracted == ExtractVersion(firmware_md5[1].name)
       IN  IF extracted = NoVersion THEN Return(TRUE)
           ELSE IF validate_junos_os(current_os, extracted) THEN Return(TRUE)
           ELSE Goto("uplink_check")
    /\ UNCHANGED fnvars
    /\ UNCHANGED <<wf, current_os, firmware_list, firmware_md5, idx, total_links, active_uplinks,
                   prompted, answer, pre_saved, post_saved, diff_saved, success,
                   art, probes, wait>>

\* fetch and parse the interface table, assess the uplinks, ask the operator
UplinkCheck ==
    /\ pc = "uplink_check"
    /\ \E fetch \in {"ok", "error", "raise"}, t \in IfaceTables, ans \in Answers :
          \* "error": the command reported an error (checks() of Junos_pyez_os
          \* reports none); "raise": the command or the parse raised
          /\ (fetch = "error") => wf # "Junos_pyez_os"
          /\ IF fetch = "error"
             THEN /\ Return(TRUE)
                  /\ UNCHANGED <<total_links, active_uplinks, prompted, answer>>
             ELSE IF fetch = "raise"
             THEN /\ Crash
                  /\ UNCHANGED <<total_links, active_uplinks, prompted, answer>>
             ELSE /\ total_links' = Len(t)
                  /\ active_uplinks' = Cardinality(ActiveUplinks(t))
                  /\ IF GateRequired(wf, Len(t), Cardinality(ActiveUplinks(t)))
                     THEN /\ prompted' = TRUE
                          /\ answer' = ans
                          /\ IF Declined(ans) THEN Return(TRUE) ELSE Goto("pre_check")
                     ELSE /\ UNCHANGED <<prompted, answer>>
                          /\ Goto("pre_check")
    /\ UNCHANGED fnvars
    /\ UNCHANGED <<wf, current_os, firmware_list, firmware_md5, idx, pre_saved, post_saved,
                   diff_saved, success, art, probes, wait>>

\* collect the pre-check snapshot and write pre_check.txt; nothing reads the
\* uplink assessment from here on, and the model forgets it
PreCheck ==
    /\ pc = "pre_check"
    /\ total_links' = 0
    /\ active_uplinks' = 0
    /\ \E raises \in BOOLEAN :
          \* checks() of Junos_pyez_os catches every command's exception
          /\ raises => wf # "Junos_pyez_os"
          /\ IF raises
             THEN /\ Crash
                  /\ UNCHANGED <<pre_saved, idx>>
             ELSE /\ pre_saved' = TRUE
                  /\ idx' = 1
                  /\ pc' = "stage"
                  /\ outcome' = outcome
                  \* precheck.main closes the session before its firmware loop
                  /\ dev' = IF wf = "precheck" THEN "closed" ELSE dev
                  /\ open_sessions' = IF wf = "precheck" THEN open_sessions - 1
                                      ELSE open_sessions
                  /\ files' = WriteFile(files, LocalDir, PreCheckPath, PreCheckOutput)
    /\ UNCHANGED fnvars
    /\ UNCHANGED <<wf, current_os, firmware_list, firmware_md5, prompted, answer, post_saved,
                   diff_saved, success, art, probes, wait>>

\* faulty variant of NoHandle: the probe goes out whatever the handle is
NoHandle_ignored(w, d) == FALSE

\* the handle the firmware loop names cannot carry a command: precheck.main
\* names the undefined ssh_target (NameError), os_full.main holds None after
\* a failed reconnection (AttributeError)
NoHandle(w, d) == w = "precheck" \/ d = "none"

\* the existence probe and, when the file is absent, the transfer
Stage ==
    /\ pc = "stage"
    /\ \E probe \in {"present", "absent", "raise"}, xfer \in {"ok", "fail"} :
          IF NoHandle(wf, dev)
          THEN /\ Crash
               /\ art' = art
          ELSE LET copies == probe = "absent"
               IN  /\ art' = [art EXCEPT ![idx] =
                                [@ EXCEPT !.exists = IF probe = "raise" THEN "error" ELSE probe,
                                          !.transfers = IF copies THEN @ + 1 ELSE @,
                                          !.transfer_ok = copies /\ xfer = "ok"]]
                   /\ IF probe = "raise" /\ wf \notin PyezWorkflows THEN Crash
                      ELSE IF copies /\ xfer = "fail" /\ AbortsOnTransferFailure(wf)
                      THEN Return(TRUE)
                      ELSE /\ pc' = AfterStage(wf)
                           \* the file is on the device when the probe saw it
                           \* or the transfer put it there
                           /\ files' = IF probe = "present" \/ (copies /\ xfer = "ok")
                                       THEN WriteFile(files, DeviceDir, firmware_md5[idx].name,
                                                      FirmwareImage)
                                       ELSE files
                           /\ UNCHANGED <<outcome, dev, open_sessions>>
    /\ UNCHANGED fnvars
    /\ UNCHANGED <<wf, current_os, firmware_list, firmware_md5, idx, total_links, active_uplinks,
                   prompted, answer, pre_saved, post_saved, diff_saved, success, probes, wait>>

\* Junos_pyez_os: dev.close() then dev.open() between copy and validation
Reopen ==
    /\ pc = "reopen"
    /\ \E ok \in BOOLEAN :
          IF ok THEN Goto("verify")
          ELSE /\ pc' = "done"
               /\ outcome' = "crashed"
               /\ dev' = "closed"
               /\ open_sessions' = open_sessions - 1
               /\ files' = AbortKeeps(files)
    /\ UNCHANGED fnvars
    /\ UNCHANGED <<wf, current_os, firmware_list, firmware_md5, idx, total_links, active_uplinks,
                   prompted, answer, pre_saved, post_saved, diff_saved, success,
                   art, probes, wait>>

\* the device-side checksum and its comparison with the expected one
Verify ==
    /\ pc = "verify"
    /\ \E raises \in BOOLEAN, raw \in RawOutputs :
          LET v == IF raises THEN "raised" ELSE VerifyResult(raw, firmware_md5[idx].expected)
          IN  /\ art' = [art EXCEPT ![idx] =
                           [@ EXCEPT !.raw = IF raises THEN <<>> ELSE raw,
                                     !.device_md5 = IF raises THEN NoDigest
                                                    ELSE ExtractDigest(raw),
                                     !.verified = v]]
              \* only validate_firmware of Junos_pyez_os catches the exception
              /\ IF raises /\ wf # "Junos_pyez_os" THEN Crash
                 ELSE IF v = "ok" THEN Goto("install")
                 ELSE Return(TRUE)
    /\ UNCHANGED fnvars
    /\ UNCHANGED <<wf, current_os, firmware_list, firmware_md5, idx, total_links, active_uplinks,
                   prompted, answer, pre_saved, post_saved, diff_saved, success, probes, wait>>

\* faulty variant of RebootRequested: the reboot request follows any install
RebootRequested_always(result) == TRUE

\* the reboot request is sent: if result: dev.rpc.request_reboot(); the
\* command-line scripts return before it when the install reported an error
RebootRequested(result) == result = "ok"

\* the install request and, when it reports success, the reboot request
Upgrade ==
    /\ pc = "install"
    /\ \E result \in InstallResults(wf), reboot_raises \in BOOLEAN :
          /\ art' = [art EXCEPT ![idx] =
                       [@ EXCEPT !.installs = @ + 1,
                                 !.install_result = result,
                                 !.reboots = IF RebootRequested(result) THEN @ + 1 ELSE @]]
          /\ IF wf \notin PyezWorkflows
                /\ (result = "Exception" \/ (result = "ok" /\ reboot_raises))
             THEN Crash
             ELSE IF result # "ok" /\ AbortsOnInstallFailure(wf) THEN Return(TRUE)
             ELSE /\ pc' = "sleep_initial"
                  /\ outcome' = outcome
                  \* os_full.main closes the session right after the reboot request
                  /\ dev' = IF wf = "os_full" THEN "closed" ELSE dev
                  /\ open_sessions' = IF wf = "os_full" THEN open_sessions - 1
                                      ELSE open_sessions
                  /\ files' = files
    /\ probes' = 0
    /\ wait' = NoWait
    /\ UNCHANGED fnvars
    /\ UNCHANGED <<wf, current_os, firmware_list, firmware_md5, idx, total_links, active_uplinks,
                   prompted, answer, pre_saved, post_saved, diff_saved, success>>

\* the one sleep before the first reachability probe
SleepInitial ==
    /\ pc = "sleep_initial"
    /\ Goto("poll")
    /\ wait' = [wait EXCEPT !.initial_sleeps = @ + 1]
    /\ UNCHANGED fnvars
    /\ UNCHANGED <<wf, current_os, firmware_list, firmware_md5, idx, total_links, active_uplinks,
                   prompted, answer, pre_saved, post_saved, diff_saved, success,
                   art, probes>>

\* one reachability probe of the wait loop
Poll ==
    /\ pc = "poll"
    /\ \E reachable \in BOOLEAN :
          /\ ~reachable => probes < MaxProbes
          /\ Goto(AfterProbe(reachable))
          /\ probes' = IF reachable THEN probes ELSE probes + 1
          /\ wait' = [wait EXCEPT !.last_probe = IF reachable THEN "reachable"
                                                 ELSE "unreachable"]
          /\ art' = IF reachable THEN [art EXCEPT ![idx].reachable = TRUE] ELSE art
    /\ UNCHANGED fnvars
    /\ UNCHANGED <<wf, current_os, firmware_list, firmware_md5, idx, total_links, active_uplinks,
                   prompted, answer, pre_saved, post_saved, diff_saved, success>>

\* the sleep between two probes
SleepPoll ==
    /\ pc = "sleep_poll"
    /\ Goto("poll")
    /\ wait' = [wait EXCEPT !.poll_sleeps = @ + 1]
    /\ UNCHANGED fnvars
    /\ UNCHANGED <<wf, current_os, firmware_list, firmware_md5, idx, total_links, active_uplinks,
                   prompted, answer, pre_saved, post_saved, diff_saved, success,
                   art, probes>>

\* establish_ssh_connection after the device is reachable again
Reconnect ==
    /\ pc = "reconnect"
    /\ probes' = 0
    /\ wait' = NoWait
    /\ \E ok \in BOOLEAN :
          LET more == idx < Len(firmware_md5)
          IN  IF ok
              THEN /\ dev' = "open"
                   /\ open_sessions' = open_sessions + 1
                   /\ outcome' = outcome
                   /\ pc' = AfterArtifact(wf, idx, Len(firmware_md5))
                   /\ idx' = NextIndex(idx, Len(firmware_md5))
                   /\ art' = [art EXCEPT ![idx].reconnected = TRUE]
                   /\ files' = files
              ELSE /\ dev' = "none"
                   /\ pc' = AfterReconnectFailure(wf, more)
                   /\ IF pc' = "done"
                      THEN /\ outcome' = "aborted"
                           /\ idx' = idx
                           /\ files' = AbortKeeps(files)
                      ELSE /\ outcome' = outcome
                           /\ idx' = IF pc' = "stage"
                                     THEN NextIndex(idx, Len(firmware_md5)) ELSE idx
                           /\ files' = files
                   /\ UNCHANGED <<open_sessions, art>>
    /\ UNCHANGED fnvars
    /\ UNCHANGED <<wf, current_os, firmware_list, firmware_md5, total_links, active_uplinks,
                   prompted, answer, pre_saved, post_saved, diff_saved, success>>

\* collect the post-check snapshot and write post_check.txt
PostCheck ==
    /\ pc = "post_check"
    /\ \E raises \in BOOLEAN :
          /\ raises => wf # "Junos_pyez_os"
          /\ IF raises
             THEN /\ Crash
                  /\ post_saved' = post_saved
             ELSE /\ pc' = "diff"
                  /\ post_saved' = TRUE
                  /\ files' = WriteFile(files, LocalDir, PostCheckPath, PostCheckOutput)
                  /\ UNCHANGED <<outcome, dev, open_sessions>>
    /\ UNCHANGED fnvars
    /\ UNCHANGED <<wf, current_os, firmware_list, firmware_md5, idx, total_links, active_uplinks,
                   prompted, answer, pre_saved, diff_saved, success, art, probes, wait>>

\* compare the two snapshots, write the table, report success
Diff ==
    /\ pc = "diff"
    \* compare_files of Junos_pyez_os calls the module tabulate: TypeError
    /\ IF wf = "Junos_pyez_os"
       THEN /\ Crash
            /\ UNCHANGED <<diff_saved, success>>
       ELSE /\ diff_saved' = TRUE
            /\ success' = TRUE
            /\ pc' = "done"
            /\ outcome' = "completed"
            /\ files' = WriteFile(files, LocalDir, DiffPath, Changes)
            /\ UNCHANGED <<dev, open_sessions>>
    /\ UNCHANGED fnvars
    /\ UNCHANGED <<wf, current_os, firmware_list, firmware_md5, idx, total_links, active_uplinks,
                   prompted, answer, pre_saved, post_saved, art, probes, wait>>

\* os_only.main: ssh.close() after the loop
Close ==
    /\ pc = "close"
    /\ dev' = "closed"
    /\ open_sessions' = open_sessions - 1
    /\ pc' = "done"
    /\ outcome' = "completed"
    /\ files' = files
    /\ UNCHANGED fnvars
    /\ UNCHANGED <<wf, current_os, firmware_list, firmware_md5, idx, total_links, active_uplinks,
                   prompted, answer, pre_saved, post_saved, diff_saved, success,
                   art, probes, wait>>

Next ==
    \/ Connect
    \/ VersionCheck
    \/ UplinkCheck
    \/ PreCheck
    \/ Stage
    \/ Reopen
    \/ Verify
    \/ Upgrade
    \/ SleepInitial
    \/ Poll
    \/ SleepPoll
    \/ Reconnect
    \/ PostCheck
    \/ Diff
    \/ Close

Spec == Init /\ [][Next]_vars

\* The script is sequential and each call of the wait returns (time.sleep
\* ends, ping -c 1 -W 3 ends), so a step of the wait that can be taken is
\* taken; the strong fairness condition is the assumption that a device
\* probed again and again is eventually found reachable.
FairSpec ==
    /\ Spec
    /\ WF_vars(SleepInitial)
    /\ WF_vars(SleepPoll)
    /\ WF_vars(Poll)
    /\ SF_vars(Poll /\ wait'.last_probe = "reachable")

----------------------------------------------------------------------------
(* Properties *)

\* the digest main extracted for loop entry i (NoDigest when none was read)
DeviceDigest(i) == art[i].device_md5

\* the raw checksum output holds a run of 32 hex digits
HasHexRun(raw) ==
    \E s \in 1..Len(raw) :
        /\ s + 31 <= Len(raw)
        /\ \A k \in 0..31 : IsHex(raw[s + k])

\* the run is over
Terminated == pc = "done" /\ outcome # "running"

\* C1: an install request is issued for an artifact only after the checksum
\* verification of that artifact has run and succeeded in the same run.
C1_InstallOnlyAfterVerified ==
    \A i \in DOMAIN art : art[i].installs > 0 => art[i].verified = "ok"

\* C2: once the digest read from the device differs from the expected checksum
\* of an artifact, the session is closed, the run is over, and neither that
\* artifact nor a later one has an install or reboot request.
C2_MismatchAborts ==
    \A i \in DOMAIN art :
        (DeviceDigest(i) # NoDigest /\ DeviceDigest(i) # firmware_md5[i].expected)
        => /\ Terminated
           /\ outcome = "aborted"
           /\ dev = "closed"
           /\ \A j \in DOMAIN art :
                 j >= i => art[j].installs = 0 /\ art[j].reboots = 0

\* C2 witness: the second artifact's digest differs after the first was installed
C2_Witness ==
    /\ Len(firmware_md5) = 2
    /\ art[1].installs = 1
    /\ art[2].verified = "mismatch"
    /\ DeviceDigest(2) = Md5Other
    /\ Terminated

\* C3: whenever the pre-check snapshot has been collected, the operator was
\* prompted with the uplink assessment and answered yes.
C3_PromptBeforePreCheck ==
    pre_saved => (prompted /\ Lower(Strip(answer)) = Yes)

\* C4: an answer other than yes (trimmed, lower-cased) closes the session and
\* ends the run with no transfer, no install request and no reboot request.
C4_DeclineAborts ==
    (prompted /\ Lower(Strip(answer)) # Yes)
    => /\ Terminated
       /\ outcome = "aborted"
       /\ dev = "closed"
       /\ open_sessions = 0
       /\ ~pre_saved
       /\ \A i \in DOMAIN art :
             art[i].transfers = 0 /\ art[i].installs = 0 /\ art[i].reboots = 0

\* C4 witness: the operator typed "yes!" and the run ended
C4_Witness ==
    /\ prompted
    /\ answer = <<"y","e","s","!">>
    /\ Terminated
    /\ dev = "closed"

\* C5: after a failed install (false result or an exception) the run is over:
\* no reachability wait, no post-check snapshot, no diff, no success report.
C5_InstallFailureAborts ==
    \A i \in DOMAIN art :
        art[i].install_result \in {"false", "RpcError", "CommitError", "Exception"}
        => /\ Terminated
           /\ outcome # "completed"
           /\ ~post_saved
           /\ ~diff_saved
           /\ ~success

\* C6: an artifact found absent whose transfer failed gets no install request
\* and no reboot request, and the run never stands at its install step.
C6_TransferFailureAborts ==
    \A i \in DOMAIN art :
        (art[i].exists = "absent" /\ art[i].transfers > 0 /\ ~art[i].transfer_ok)
        => /\ art[i].installs = 0
           /\ art[i].reboots = 0
           /\ ~(pc = "install" /\ idx = i)

\* C7: an artifact found present whose device-side checksum matches the
\* expected one (32 hex digits, case-insensitive) is not transferred, passes
\* verification, and the run goes on to its install.
C7_PrestagedProceeds ==
    \A i \in DOMAIN art :
        (/\ art[i].exists = "present"
         /\ DeviceDigest(i) # NoDigest
         /\ Lower(DeviceDigest(i)) = Lower(firmware_md5[i].expected))
        => /\ art[i].transfers = 0
           /\ art[i].verified = "ok"
           /\ (art[i].installs = 1 \/ (pc = "install" /\ idx = i))

\* C8: verification succeeds whenever the extracted digest and the expected
\* checksum are equal after lower-casing.
C8_CaseInsensitiveMatch ==
    \A i \in DOMAIN art :
        (/\ art[i].verified \notin {"none", "raised"}
         /\ HasHexRun(art[i].raw)
         /\ Lower(DeviceDigest(i)) = Lower(firmware_md5[i].expected))
        => art[i].verified = "ok"

\* C9: when the raw checksum output holds no run of 32 hex digits, or the
\* checksum computation raised, verification did not succeed and the run is
\* over with no install request for that artifact.
C9_NoDigestAborts ==
    \A i \in DOMAIN art :
        (\/ art[i].verified = "raised"
         \/ (art[i].verified \notin {"none", "raised"} /\ ~HasHexRun(art[i].raw)))
        => /\ art[i].verified \in {"raised", "unavailable"}
           /\ art[i].installs = 0
           /\ Terminated
           /\ outcome \in {"aborted", "crashed"}

\* C9 witness: the output held only 31 hex digits and the run ended
C9_Witness ==
    \E i \in DOMAIN art :
        /\ art[i].raw = Wrap(ShortHex)
        /\ art[i].verified = "unavailable"
        /\ Terminated

\* C10: no loop entry ever has more than one install request.
C10_InstallAtMostOnce ==
    \A i \in DOMAIN art : art[i].installs <= 1

\* C10 witness: an install failed and the run ended without a second attempt
C10_Witness ==
    \E i \in DOMAIN art :
        /\ art[i].installs = 1
        /\ art[i].install_result = "false"
        /\ Terminated

----------------------------------------------------------------------------
(* The phases of a session *)

\* the chain of phases a run passes through
PhaseChain == <<"Start", "Connected", "UplinksValidated", "PreChecked", "Staged",
                "Upgrading", "Rebooting", "Reachable", "PostChecked", "Diffed",
                "Complete", "Aborted">>

\* the phase main is in, read off its position: the install and the reboot
\* request are one step, and so are the comparison and the success report,
\* which leaves Upgrading and Diffed without a position of their own
Phase ==
    IF outcome \in {"aborted", "crashed"} THEN "Aborted"
    ELSE IF pc = "connect" THEN "Start"
    ELSE IF pc \in {"version_check", "uplink_check"} THEN "Connected"
    ELSE IF pc = "pre_check" THEN "UplinksValidated"
    ELSE IF pc \in {"stage", "reopen", "verify"}
         THEN (IF pre_saved THEN "PreChecked" ELSE "Connected")
    ELSE IF pc = "install" THEN "Staged"
    ELSE IF pc \in {"sleep_initial", "poll", "sleep_poll"} THEN "Rebooting"
    ELSE IF pc \in {"reconnect", "post_check", "close"} THEN "Reachable"
    ELSE IF pc = "diff" THEN "PostChecked"
    ELSE "Complete"

\* the place of the current phase in the chain
PhaseRank == CHOOSE k \in 1..Len(PhaseChain) : PhaseChain[k] = Phase

\* the step that leads into the current phase has succeeded
PhaseGate ==
    /\ Phase = "Connected" => dev = "open"
    /\ Phase = "PreChecked" => pre_saved
    /\ Phase = "Staged" =>
          /\ art[idx].exists = "present" \/ art[idx].transfer_ok
          /\ wf \in VerifyingWorkflows => art[idx].verified = "ok"
    /\ Phase = "Rebooting" =>
          art[idx].install_result = "ok" /\ art[idx].reboots = 1
    /\ (Phase = "Reachable" /\ pc = "reconnect") => art[idx].reachable
    /\ Phase = "PostChecked" => post_saved
    /\ Phase = "Complete" => (wf = "os_only" \/ diff_saved)

\* C11: the phase never goes back along the chain (a move to Aborted aside),
\* and every phase is entered only after the step that leads into it has
\* succeeded, for one artifact and for several.
C11_PhaseChain ==
    [][PhaseRank' >= PhaseRank /\ PhaseGate']_vars

\* C12: the post-check snapshot is collected only after the last artifact's
\* reboot request, a later probe that returned reachable, and a successful
\* reconnection; none of its commands runs before that probe.
C12_PostCheckAfterReboot ==
    (pc = "post_check" \/ post_saved)
    => LET last == Len(firmware_md5)
       IN  /\ art[last].reboots >= 1
           /\ art[last].reachable
           /\ art[last].reconnected

\* C13: a wait sleeps the initial delay exactly once before its first probe,
\* then takes one poll sleep after each unreachable probe and before the next
\* probe; it is left after a probe exactly when that probe returned reachable.
C13_WaitShape ==
    /\ pc = "sleep_initial" => (wait = NoWait /\ probes = 0)
    /\ pc = "poll" =>
          /\ wait.initial_sleeps = 1
          /\ wait.poll_sleeps = probes
          /\ wait.last_probe = IF probes = 0 THEN "none" ELSE "unreachable"
    /\ pc = "sleep_poll" =>
          /\ wait.initial_sleeps = 1
          /\ wait.poll_sleeps = probes - 1
          /\ wait.last_probe = "unreachable"
    /\ pc = "reconnect" =>
          /\ wait.initial_sleeps = 1
          /\ wait.poll_sleeps = probes
          /\ wait.last_probe = "reachable"
    /\ wait.last_probe = "reachable" => pc = "reconnect"
    /\ wait.last_probe = "unreachable" => pc \in {"poll", "sleep_poll"}

\* C13 witness: the wait after the second artifact's reboot request ended on
\* the third probe, after two unreachable ones
C13_Witness ==
    /\ pc = "reconnect"
    /\ idx = 2
    /\ art[2].reboots = 1
    /\ probes = 2
    /\ wait.poll_sleeps = 2
    /\ wait.last_probe = "reachable"

\* the positions of the reachability wait
WaitPositions == {"sleep_initial", "poll", "sleep_poll"}

\* a step taken inside the wait keeps the run running, and leaves the wait
\* only for the reconnection and only when its probe returned reachable
WaitStep ==
    pc \in WaitPositions
    => /\ outcome' = "running"
       /\ \/ pc' \in WaitPositions
          \/ pc' = "reconnect" /\ wait'.last_probe = "reachable"

ConnFailed == dev = "none" /\ pc # "connect"

\* the step ends the run and touches neither the device nor the files
EndsWithoutOperation ==
    /\ pc' = "done"
    /\ outcome' \in {"aborted", "crashed"}
    /\ UNCHANGED <<dev, open_sessions, art, prompted, pre_saved, post_saved,
                   diff_saved, success, files>>

\* C15: once a connection attempt has failed, at the start or after a reboot,
\* after the last artifact or an earlier one, the run is over or ends with its
\* next step: no second attempt, no command, probe, transfer, checksum,
\* install, reboot or snapshot follows.
C15_NoOperationAfterConnectFailure ==
    /\ [](ConnFailed => (Terminated \/ pc = "stage"))
    /\ [][ConnFailed => EndsWithoutOperation]_vars

\* C15 witness: os_full, two artifacts, the reconnection after the first
\* reboot failed and the run ended before anything was done for the second
C15_Witness ==
    /\ wf = "os_full"
    /\ Len(firmware_md5) = 2
    /\ art[1].reboots = 1
    /\ ~art[1].reconnected
    /\ art[2] = NoArt
    /\ dev = "none"
    /\ Terminated

\* a file as save_output_to_file leaves it in the working directory
LocalFile(name, content) == [dir |-> LocalDir, name |-> name, content |-> content]

\* the step is an early return or an uncaught exception of a run whose
\* pre-check snapshot is on disk
AbortAfterPreCheck ==
    /\ outcome = "running"
    /\ outcome' \in {"aborted", "crashed"}
    /\ LocalFile(PreCheckPath, PreCheckOutput) \in files

\* C16: a step that aborts the run after the pre-check snapshot was written
\* leaves that file and every firmware file staged on the device as they
\* were: same name, same content.
C16_AbortKeepsFiles ==
    [][AbortAfterPreCheck => files \subseteq files']_vars

\* C16 witness: the run was aborted with the pre-check snapshot on disk and
\* a firmware file staged on the device
C16_Witness ==
    /\ outcome = "aborted"
    /\ LocalFile(PreCheckPath, PreCheckOutput) \in files
    /\ \E f \in files : f.dir = DeviceDir /\ f.content = FirmwareImage

\* C17: a run that printed the success message has written the pre-check
\* snapshot to pre_check.txt, the post-check snapshot to post_check.txt and
\* the changes to version_comparison.txt.
C17_SuccessHasThreeFiles ==
    success
    => /\ LocalFile(PreCheckPath, PreCheckOutput) \in files
       /\ LocalFile(PostCheckPath, PostCheckOutput) \in files
       /\ LocalFile(DiffPath, Changes) \in files

\* C17 witness: os_full reported success after two artifacts
C17_Witness ==
    /\ success
    /\ wf = "os_full"
    /\ Len(firmware_md5) = 2
    /\ outcome = "completed"

----------------------------------------------------------------------------
(* Functions analysed on their own: the snapshot collection and the two    *)
(* comparisons.  A behaviour of FnSpec is one call: Init draws the         *)
(* arguments, the one step stores the result.                              *)

\* bounds of the arguments
MaxLines == 2
MaxCommands == 2

\* the descriptions of check_commands
ShowVersion ==
    <<"S","h","o","w"," ","v","e","r","s","i","o","n">>
ShowInterfacesTerse ==
    <<"S","h","o","w"," ","i","n","t","e","r","f","a","c","e","s"," ","t",
          "e","r","s","e">>
ShowLLDPNeighbors ==
    <<"S","h","o","w"," ","L","L","D","P"," ","n","e","i","g","h","b","o",
          "r","s">>
ShowVirtualChassis ==
    <<"S","h","o","w"," ","v","i","r","t","u","a","l","-","c","h","a","s",
          "s","i","s">>
ShowInterfacesDescription ==
    <<"S","h","o","w"," ","i","n","t","e","r","f","a","c","e","s"," ","d",
          "e","s","c","r","i","p","t","i","o","n">>
ShowEthernetSwitchingTable ==
    <<"S","h","o","w"," ","E","t","h","e","r","n","e","t"," ","S","w","i",
          "t","c","h","i","n","g"," ","T","a","b","l","e">>

\* main's list of commands, each with its description and RPC method
check_commands ==
    <<[description |-> ShowVersion,
       method |-> "get_software_information"],
      [description |-> ShowInterfacesTerse,
       method |-> "get_interface_information"],
      [description |-> ShowLLDPNeighbors,
       method |-> "get_lldp_neighbors_information"],
      [description |-> ShowVirtualChassis,
       method |-> "get_virtual_chassis_information"],
      [description |-> ShowInterfacesDescription,
       method |-> "get_interface_information"],
      [description |-> ShowEthernetSwitchingTable,
       method |-> "get_ethernet_switching_table_information"]>>


(* Snapshot collection *)

\* what one command of the collection can hand back: an XML reply, None,
\* or an exception
CommandResults == {"xml", "None", "raise"}

\* the scripts whose collection loop is analysed: checks of Junos_pyez_os,
\* the loop in main of pyez_os
CollectingScripts == {"Junos_pyez_os", "pyez_os"}

\* whether the loop wraps each command in try/except
CatchesCommandError(w) == w = "Junos_pyez_os"

\* whether the command fails: it raised, or (pyez_os) extract_text_from_xml
\* was handed None
CommandFails(w, result) ==
    result = "raise" \/ (result = "None" /\ w # "Junos_pyez_os")

\* the block the loop appends for one command
CommandBlock(cmd, result) ==
    IF result = "raise"
    THEN [head |-> "Error executing", description |-> cmd.description,
          body |-> "exception text"]
    ELSE [head |-> "Command:", description |-> cmd.description,
          body |-> IF result = "None" THEN "No data available" ELSE "text_output"]

RECURSIVE ChecksLoop(_, _, _, _, _)
\* for cmd in check_commands: ... from command i on; acc is the document so
\* far, the methods called so far, and whether an exception left the loop
ChecksLoop(w, cmds, results, i, acc) ==
    IF i > Len(cmds) THEN acc
    ELSE LET called == Append(acc.called, cmds[i].method)
         IN  IF CommandFails(w, results[i]) /\ ~CatchesCommandError(w)
             THEN [check_output |-> acc.check_output, called |-> called,
                   raised |-> TRUE]
             ELSE ChecksLoop(w, cmds, results, i + 1,
                             [check_output |-> Append(acc.check_output,
                                                      CommandBlock(cmds[i], results[i])),
                              called |-> called, raised |-> FALSE])

\* checks(dev, check_commands), the device answering with results
checks(w, cmds, results) ==
    ChecksLoop(w, cmds, results, 1,
               [check_output |-> <<>>, called |-> <<>>, raised |-> FALSE])

(* Lines and texts *)

\* the lines the snapshots are made of: an empty line, the header of the
\* first command, two lines of output.  No two of them are similar enough
\* (ratio above 0.74) for difflib to pair them up.
EmptyLine == <<>>
CommandHeader == <<"C","o","m","m","a","n","d",":"," ">> \o ShowVersion
Lines == {EmptyLine, CommandHeader, <<"u","p">>, <<"d","o","w","n">>}

\* the line sequences of at most MaxLines lines
LineLists == UNION { [1..n -> Lines] : n \in 0..MaxLines }

RECURSIVE JoinLines(_)
\* the text whose lines are ls, each ended by a newline as checks writes them
JoinLines(ls) ==
    IF ls = <<>> THEN <<>>
    ELSE Head(ls) \o <<"\n">> \o JoinLines(Tail(ls))

RECURSIVE SplitLoop(_, _, _)
\* str.splitlines() from the rest of the text on; cur is the line being read
SplitLoop(text, cur, acc) ==
    IF text = <<>> THEN (IF cur = <<>> THEN acc ELSE Append(acc, cur))
    ELSE IF Head(text) = "\n" THEN SplitLoop(Tail(text), <<>>, Append(acc, cur))
    ELSE SplitLoop(Tail(text), Append(cur, Head(text)), acc)

\* str.splitlines()
splitlines(text) == SplitLoop(text, <<>>, <<>>)

\* sub in text
Contains(sub, text) ==
    \E k \in 0..(Len(text) - Len(sub)) : SubSeq(text, k + 1, k + Len(sub)) = sub

\* text.startswith(prefix)
StartsWith(text, prefix) ==
    Len(text) >= Len(prefix) /\ SubSeq(text, 1, Len(prefix)) = prefix

(* The positional comparison: compare_files of os_full, pyez_os, post_compare *)

\* faulty variant of max_lines: the comparison runs over the lines of pre only
max_lines_pre(pre_data, post_data) == Len(pre_data)

\* faulty variant of max_lines: the comparison stops at the shorter side
max_lines_shorter(pre_data, post_data) ==
    IF Len(pre_data) <= Len(post_data) THEN Len(pre_data) ELSE Len(post_data)

\* max(len(pre_data), len(post_data))
max_lines(pre_data, post_data) ==
    IF Len(pre_data) >= Len(post_data) THEN Len(pre_data) ELSE Len(post_data)

\* data[i] if i < len(data) else "" (i counts from 1 here)
LineAt(data, i) == IF i <= Len(data) THEN data[i] ELSE EmptyLine

RECURSIVE CompareLoop(_, _, _, _)
\* for i in range(max_lines): ... from index i on
CompareLoop(pre_data, post_data, i, changes) ==
    IF i > max_lines(pre_data, post_data) THEN changes
    ELSE LET pre_line == LineAt(pre_data, i)
             post_line == LineAt(post_data, i)
         IN  CompareLoop(pre_data, post_data, i + 1,
                         IF pre_line # post_line
                         THEN Append(changes, <<pre_line, post_line>>)
                         ELSE changes)

\* compare_files(pre_data, post_data)
compare_files(pre_data, post_data) == CompareLoop(pre_data, post_data, 1, <<>>)

(* The structural comparison: compare_files of Junos_pyez_os *)

\* the blocks a and b have in common: a[i..i+k-1] = b[j..j+k-1]
Matches(a, b) ==
    {m \in [i : 1..Len(a), j : 1..Len(b), k : 1..Len(a)] :
        /\ m.i + m.k - 1 <= Len(a)
        /\ m.j + m.k - 1 <= Len(b)
        /\ SubSeq(a, m.i, m.i + m.k - 1) = SubSeq(b, m.j, m.j + m.k - 1)}

\* SequenceMatcher.find_longest_match: the longest common block, the one
\* starting earliest in a and then earliest in b
LongestMatch(a, b) ==
    CHOOSE m \in Matches(a, b) :
        \A o \in Matches(a, b) :
            \/ m.k > o.k
            \/ m.k = o.k /\ m.i < o.i
            \/ m.k = o.k /\ m.i = o.i /\ m.j <= o.j

\* Differ._dump: every line of ls behind the two-character tag
Dump(tag, ls) == [n \in 1..Len(ls) |-> tag \o ls[n]]

\* Differ._plain_replace, and the delete and insert opcodes
PlainReplace(a, b) ==
    IF Len(b) < Len(a)
    THEN Dump(<<"+"," ">>, b) \o Dump(<<"-"," ">>, a)
    ELSE Dump(<<"-"," ">>, a) \o Dump(<<"+"," ">>, b)

RECURSIVE Differ(_, _)
\* difflib.Differ().compare(a, b): the longest common block is kept, what
\* lies before it and after it is compared in the same way; lines that are
\* not similar are replaced plainly, without "? " lines
Differ(a, b) ==
    IF Matches(a, b) = {} THEN PlainReplace(a, b)
    ELSE LET m == LongestMatch(a, b)
         IN  Differ(SubSeq(a, 1, m.i - 1), SubSeq(b, 1, m.j - 1))
             \o Dump(<<" "," ">>, SubSeq(a, m.i, m.i + m.k - 1))
             \o Differ(SubSeq(a, m.i + m.k, Len(a)), SubSeq(b, m.j + m.k, Len(b)))

\* any(cmd['description'] in line for cmd in check_commands)
NamesCommand(line, cmds) ==
    \E c \in 1..Len(cmds) : Contains(cmds[c].description, line)

RECURSIVE ChangesLoop(_, _, _, _, _)
\* for line in delta: ... from entry n on, filling old_changes and new_changes
ChangesLoop(delta, cmds, n, old_changes, new_changes) ==
    IF n > Len(delta) THEN [old_changes |-> old_changes, new_changes |-> new_changes]
    ELSE LET line == delta[n]
         IN  IF NamesCommand(line, cmds)
             THEN ChangesLoop(delta, cmds, n + 1,
                              old_changes \o <<<<>>, line, <<>>>>,
                              new_changes \o <<<<>>, <<>>, line>>)
             ELSE IF StartsWith(line, <<"-"," ">>)
             THEN ChangesLoop(delta, cmds, n + 1,
                              Append(old_changes, Tail(line)),
                              Append(new_changes, <<>>))
             ELSE IF StartsWith(line, <<"+"," ">>)
             THEN ChangesLoop(delta, cmds, n + 1,
                              Append(old_changes, <<>>),
                              Append(new_changes, Tail(line)))
             ELSE ChangesLoop(delta, cmds, n + 1, old_changes, new_changes)

\* list(zip(xs, ys))
Zip(xs, ys) ==
    [n \in 1..(IF Len(xs) <= Len(ys) THEN Len(xs) ELSE Len(ys)) |-> <<xs[n], ys[n]>>]

\* new_changes[1:]
From1(xs) == IF xs = <<>> THEN <<>> ELSE Tail(xs)

\* the rows compare_files hands to tabulate: zip(old_changes, new_changes[1:])
Junos_compare_rows(pre_data, post_data, cmds) ==
    LET delta == Differ(splitlines(pre_data), splitlines(post_data))
        c == ChangesLoop(delta, cmds, 1, <<>>, <<>>)
    IN  Zip(c.old_changes, From1(c.new_changes))

\* compare_files(pre_data, post_data, check_commands) of Junos_pyez_os:
\* tabulate is the module (import tabulate), so calling it raises TypeError
Junos_compare_files(pre_data, post_data, cmds) ==
    [rows |-> Junos_compare_rows(pre_data, post_data, cmds), raised |-> "TypeError"]

(* The change table *)

MaxText == 4
MaxWidth == 3

\* the texts a table cell can hold
WrapTexts == UNION { [1..n -> {"a", " "}] : n \in 0..MaxText }

\* s.rfind(" "): the 0-based index of the last space of s, -1 when it has none
rfind(s) ==
    LET at == {i \in 1..Len(s) : s[i] = " "}
    IN  IF at = {} THEN -1 ELSE (CHOOSE i \in at : \A j \in at : j <= i) - 1

\* faulty variant of WrapLoop: the text is returned in one piece
WrapLoop_whole(text, width, lines) == Append(lines, text)

RECURSIVE WrapLoop(_, _, _)
\* the while loop of wrap_text over (text, lines)
WrapLoop(text, width, lines) ==
    IF Len(text) > width
    THEN LET found == rfind(SubSeq(text, 1, width))
             split_index == IF found = -1 THEN width ELSE found
         IN  WrapLoop(Strip(SubSeq(text, split_index + 1, Len(text))), width,
                      Append(lines, Strip(SubSeq(text, 1, split_index))))
    ELSE Append(lines, text)

\* wrap_text(text, width): the fragments of one cell
wrap_text(text, width) == WrapLoop(text, width, <<>>)

MaxRecords == 2

col_width == 50
table_width == 2 * col_width + 7

Repeat(c, n) == [i \in 1..n |-> c]

\* the texts of a change record: empty, short, one that wraps at its space,
\* one without a space that is cut twice
TableTexts == { <<>>, <<"u", "p">>,
                Repeat("a", 30) \o <<" ">> \o Repeat("b", 30),
                Repeat("a", 2 * col_width + 20) }
ChangeLists == UNION { [1..n -> TableTexts \X TableTexts] : n \in 0..MaxRecords }

\* f"{cell:<{col_width}}": the cell padded on the right with spaces
LeftAlign(cell, width) ==
    IF Len(cell) >= width THEN cell ELSE cell \o Repeat(" ", width - Len(cell))

\* one written row: "| <pre> | <post> |\n"
TableRow(pre_line, post_line) ==
    <<"|", " ">> \o LeftAlign(pre_line, col_width) \o <<" ", "|", " ">>
        \o LeftAlign(post_line, col_width) \o <<" ", "|", "\n">>

\* a border: "+" + "-" * (table_width - 2) + "+\n"
TableBorder == <<"+">> \o Repeat("-", table_width - 2) \o <<"+", "\n">>


\* faulty variant of table_max_lines: the shorter side decides
table_max_lines_min(pre_lines, post_lines) ==
    IF Len(pre_lines) <= Len(post_lines) THEN Len(pre_lines) ELSE Len(post_lines)

\* max_lines = max(len(pre_lines), len(post_lines))
table_max_lines(pre_lines, post_lines) ==
    IF Len(pre_lines) >= Len(post_lines) THEN Len(pre_lines) ELSE Len(post_lines)

\* pre_lines[i] if i < len(pre_lines) else "", for the 1-based i
FragmentAt(fragments, i) == IF i <= Len(fragments) THEN fragments[i] ELSE <<>>

\* the rows of one change record: for i in range(max_lines)
RecordRows(pre, post) ==
    LET pre_lines == wrap_text(pre, col_width)
        post_lines == wrap_text(post, col_width)
    IN  [i \in 1..table_max_lines(pre_lines, post_lines) |->
            TableRow(FragmentAt(pre_lines, i), FragmentAt(post_lines, i))]

RECURSIVE TableLoop(_, _, _)
\* for pre, post in changes: the lines written so far
TableLoop(changes, k, written) ==
    IF k > Len(changes) THEN written
    ELSE TableLoop(changes, k + 1, written \o RecordRows(changes[k][1], changes[k][2]))

\* save_table_to_file(changes, output_file): the lines of the written file
save_table_to_file(changes) ==
    TableLoop(changes, 1,
              <<TableBorder,
                TableRow(<<"P", "r", "e", "-", "C", "h", "e", "c", "k">>,
                         <<"P", "o", "s", "t", "-", "C", "h", "e", "c", "k">>),
                TableBorder>>)
        \o <<TableBorder>>

(* The uplink assessment: parse_interfaces_descriptions, parse_lldp_neighbors *)

MaxData == 2

RECURSIVE SplitWords(_, _, _)
\* the scan of str.split() over (rest of the line, word in progress, words)
SplitWords(text, cur, acc) ==
    IF text = <<>> THEN (IF cur = <<>> THEN acc ELSE Append(acc, cur))
    ELSE IF IsSpace(Head(text))
         THEN SplitWords(Tail(text), <<>>, IF cur = <<>> THEN acc ELSE Append(acc, cur))
         ELSE SplitWords(Tail(text), Append(cur, Head(text)), acc)

\* line.split(): the whitespace-separated fields of a line
split(line) == SplitWords(line, <<>>, <<>>)

uplink_regex == <<"c", "o", "r", "p", "-", "c", "r">>
Up == <<"u", "p">>

\* the data lines of "show interfaces descriptions", under their header line
IfaceLines == { <<"g", "e", "1", " ", "u", "p", " ", "u", "p", " ", "c", "o", "r", "p", "-", "c", "r", "1">>,
                <<"g", "e", "2", " ", "D", "o", "w", "n", " ", "u", "p", " ", "c", "o", "r", "p", "-", "c", "r", "2">>,
                <<"g", "e", "3", " ", "u", "p", " ", "d", "o", "w", "n">>,
                <<"g", "e", "4", " ", "U", "P", " ", "u", "p", " ", "l", "a", "n", " ", "a">>,
                EmptyLine }
IfaceOutputs ==
    {<<>>} \cup { JoinLines(<<<<"I", "n", "t", "e", "r", "f", "a", "c", "e", " ", "A", "d", "m", "i", "n", " ", "L", "i", "n", "k", " ", "D", "e", "s", "c", "r", "i", "p", "t", "i", "o", "n">>>>
                            \o data) :
                    data \in UNION { [1..n -> IfaceLines] : n \in 0..MaxData } }

\* the scripts with the tabular parser
ParsingScripts == {"precheck", "os_full", "pyez_os"}

\* the scripts whose parser skips a line with fewer than 4 fields
ChecksFieldCount(w) == w = "precheck"

\* interfaces[interface] = entry: a new key goes last, a known key keeps its place
DictSet(interfaces, entry) ==
    IF \E i \in 1..Len(interfaces) : interfaces[i].interface = entry.interface
    THEN [i \in 1..Len(interfaces) |->
             IF interfaces[i].interface = entry.interface THEN entry ELSE interfaces[i]]
    ELSE Append(interfaces, entry)

\* the entry a data line gives; the description is parts[3] where the
\* field count is checked and parts[-1] elsewhere
InterfaceEntry(w, parts, regex_pattern) ==
    LET admin_status == IF Len(parts) > 1 THEN Lower(parts[2]) ELSE <<>>
        link_status == IF Len(parts) > 2 THEN Lower(parts[3]) ELSE <<>>
        description == IF ChecksFieldCount(w) THEN parts[4] ELSE parts[Len(parts)]
    IN  [interface |-> parts[1],
         admin_up |-> admin_status = Up,
         link_up |-> link_status = Up,
         is_uplink |-> Contains(regex_pattern, description),
         description |-> description]

RECURSIVE ParseLoop(_, _, _, _, _)
\* for line in lines[1:], from the n-th line on
ParseLoop(w, lines, regex_pattern, n, interfaces) ==
    IF n > Len(lines) THEN [interfaces |-> interfaces, raised |-> "none"]
    ELSE LET parts == split(lines[n])
         IN  IF ChecksFieldCount(w)
             THEN ParseLoop(w, lines, regex_pattern, n + 1,
                            IF Len(parts) >= 4
                            THEN DictSet(interfaces, InterfaceEntry(w, parts, regex_pattern))
                            ELSE interfaces)
             ELSE IF parts = <<>>
                  THEN [interfaces |-> <<>>, raised |-> "IndexError"]
                  ELSE ParseLoop(w, lines, regex_pattern, n + 1,
                                 DictSet(interfaces, InterfaceEntry(w, parts, regex_pattern)))

\* parse_interfaces_descriptions(output, regex_pattern) of script w
parse_interfaces_descriptions(w, output, regex_pattern) ==
    ParseLoop(w, splitlines(output), regex_pattern, 2, <<>>)

\* the data lines of "show lldp neighbors", under their header line
LldpLines == { <<"g", "e", "1", " ", "s", "w", "1">>,
               <<"g", "e", "2", " ", "s", "w", "2">>,
               <<"g", "e", "3">>,
               EmptyLine }
LldpOutputs ==
    {<<>>} \cup { JoinLines(<<<<"L", "o", "c", "a", "l", " ", "I", "n", "t", "e", "r", "f", "a", "c", "e">>>>
                            \o data) :
                    data \in UNION { [1..n -> LldpLines] : n \in 0..MaxData } }

RECURSIVE LldpLoop(_, _, _)
\* for line in lines[1:], from the n-th line on
LldpLoop(lines, n, uplink_interfaces) ==
    IF n > Len(lines) THEN uplink_interfaces
    ELSE LET parts == split(lines[n])
         IN  LldpLoop(lines, n + 1,
                      IF Len(parts) >= 2 THEN Append(uplink_interfaces, parts[1])
                      ELSE uplink_interfaces)

\* parse_lldp_neighbors(output): the local interfaces, with what was raised
parse_lldp_neighbors(output) ==
    [interfaces |-> LldpLoop(splitlines(output), 2, <<>>), raised |-> "none"]

(* The structured parser of Junos_pyez_os *)

NameKey == <<"n", "a", "m", "e", ":">>
AdminStatusKey == <<"a", "d", "m", "i", "n", " ", "s", "t", "a", "t", "u", "s", ":">>
OperStatusKey == <<"o", "p", "e", "r", " ", "s", "t", "a", "t", "u", "s", ":">>
DescriptionKey == <<"d", "e", "s", "c", "r", "i", "p", "t", "i", "o", "n", ":">>

\* the data lines of the structured interface output, under its first line
JunosLines == { <<"n", "a", "m", "e", ":", " ", "g", "e", "1">>,
                <<"a", "d", "m", "i", "n", " ", "s", "t", "a", "t", "u", "s", ":", " ", "U", "p">>,
                <<"o", "p", "e", "r", " ", "s", "t", "a", "t", "u", "s", ":", " ", "d", "o", "w", "n">>,
                <<"d", "e", "s", "c", "r", "i", "p", "t", "i", "o", "n", ":", " ", "c", "o", "r", "p", "-", "c", "r", "1">>,
                EmptyLine }
JunosOutputs ==
    {<<>>} \cup { JoinLines(<<<<"S", "h", "o", "w", " ", "i", "n", "t", "e", "r", "f", "a", "c", "e", "s", " ", "d", "e", "s", "c", "r", "i", "p", "t", "i", "o", "n", "s">>>>
                            \o data) :
                    data \in UNION { [1..n -> JunosLines] : n \in 0..MaxData } }

\* line.split(": ")[-1].strip(): what follows the last ": " of the line
LastValue(line) ==
    LET at == {i \in 1..Len(line) - 1 : line[i] = ":" /\ line[i + 1] = " "}
        last == CHOOSE i \in at : \A j \in at : j <= i
    IN  Strip(IF at = {} THEN line ELSE SubSeq(line, last + 2, Len(line)))

\* interfaces[current_interface] = {}
NoFields(name) ==
    [interface |-> name, admin_up |-> "unset", link_up |-> "unset",
     is_uplink |-> "unset", description |-> <<>>]

Flag(b) == IF b THEN "true" ELSE "false"

\* interfaces[current_interface][key] = value, for the entry named name
SetFields(interfaces, name, line, regex_pattern) ==
    [i \in 1..Len(interfaces) |->
        IF interfaces[i].interface # name THEN interfaces[i]
        ELSE IF Contains(AdminStatusKey, line)
        THEN [interfaces[i] EXCEPT !.admin_up = Flag(Lower(LastValue(line)) = Up)]
        ELSE IF Contains(OperStatusKey, line)
        THEN [interfaces[i] EXCEPT !.link_up = Flag(Lower(LastValue(line)) = Up)]
        ELSE [interfaces[i] EXCEPT !.description = LastValue(line),
                                   !.is_uplink = Flag(Contains(regex_pattern, LastValue(line)))]]

RECURSIVE JunosParseLoop(_, _, _, _, _)
\* for line in lines[1:], from the n-th line on; current_interface is <<>>
\* for None and <<name>> otherwise
JunosParseLoop(lines, regex_pattern, n, current_interface, interfaces) ==
    IF n > Len(lines) THEN [interfaces |-> interfaces, raised |-> "none"]
    ELSE LET line == lines[n]
         IN  IF StartsWith(line, NameKey)
             THEN JunosParseLoop(lines, regex_pattern, n + 1, <<LastValue(line)>>,
                                 DictSet(interfaces, NoFields(LastValue(line))))
             ELSE IF \/ Contains(AdminStatusKey, line)
                     \/ Contains(OperStatusKey, line)
                     \/ Contains(DescriptionKey, line)
             THEN IF current_interface = <<>>
                  THEN [interfaces |-> <<>>, raised |-> "KeyError"]
                  ELSE JunosParseLoop(lines, regex_pattern, n + 1, current_interface,
                                      SetFields(interfaces, current_interface[1], line,
                                                regex_pattern))
             ELSE JunosParseLoop(lines, regex_pattern, n + 1, current_interface, interfaces)

\* Junos_pyez_os.parse_interfaces_descriptions(output, regex_pattern)
Junos_parse_interfaces_descriptions(output, regex_pattern) ==
    JunosParseLoop(splitlines(output), regex_pattern, 2, <<>>, <<>>)

(* The counts of the uplink assessment *)

MaxNeighbors == 2

IfaceName(i) == <<"g", "e">> \o <<<<"1", "2", "3", "4", "5", "6", "7", "8", "9">>[i]>>

\* the flags of a parsed interface
StatusKinds == { [is_uplink |-> TRUE, admin_up |-> TRUE, link_up |-> TRUE],
                 [is_uplink |-> TRUE, admin_up |-> FALSE, link_up |-> TRUE],
                 [is_uplink |-> TRUE, admin_up |-> TRUE, link_up |-> FALSE],
                 [is_uplink |-> FALSE, admin_up |-> TRUE, link_up |-> TRUE] }

\* interfaces_status: the entries of the mapping, in insertion order
StatusMaps ==
    UNION { { [i \in 1..n |-> [interface |-> IfaceName(i), is_uplink |-> kinds[i].is_uplink,
                               admin_up |-> kinds[i].admin_up, link_up |-> kinds[i].link_up]] :
              kinds \in [1..n -> StatusKinds] } : n \in 0..MaxIfaces }

\* lldp_interfaces: the local interfaces of the neighbor table
NeighborLists == UNION { [1..n -> {IfaceName(1), IfaceName(2)}] : n \in 0..MaxNeighbors }

\* the scripts that count confirmed uplinks
AssessingScripts == {"os_full", "precheck"}

\* the scripts whose active uplinks must be administratively up
ChecksAdminUp(w) == w # "precheck"

\* [intf for intf, details in interfaces_status.items() if details["is_uplink"]]
uplink_candidates(interfaces_status) ==
    LET IsUplink(e) == e.is_uplink
    IN  SelectSeq(interfaces_status, IsUplink)

\* [intf for intf in uplink_candidates if ... interfaces_status[intf]["link_up"]]
active_of(w, candidates) ==
    LET IsActive(e) == (ChecksAdminUp(w) => e.admin_up) /\ e.link_up
    IN  SelectSeq(candidates, IsActive)

\* faulty variant of confirmed_of: every candidate the neighbor table names
confirmed_of_candidates(interfaces_status, active, lldp_interfaces) ==
    LET InLldp(e) == \E k \in 1..Len(lldp_interfaces) : lldp_interfaces[k] = e.interface
    IN  SelectSeq(uplink_candidates(interfaces_status), InLldp)

\* [intf for intf in active_uplinks if intf in lldp_interfaces]
confirmed_of(interfaces_status, active, lldp_interfaces) ==
    LET InLldp(e) == \E k \in 1..Len(lldp_interfaces) : lldp_interfaces[k] = e.interface
    IN  SelectSeq(active, InLldp)

InterfaceNames(entries) == [i \in 1..Len(entries) |-> entries[i].interface]

\* the four lists and counts main prints
assessment(w, interfaces_status, lldp_interfaces) ==
    LET candidates == uplink_candidates(interfaces_status)
        active == active_of(w, candidates)
        confirmed == confirmed_of(interfaces_status, active, lldp_interfaces)
    IN  [total_links |-> Len(interfaces_status),
         uplink_candidates |-> InterfaceNames(candidates),
         active_uplinks |-> InterfaceNames(active),
         confirmed_uplinks |-> InterfaceNames(confirmed)]

(* One call of one function *)

\* the arguments a call can get
FnInputs(f) ==
    IF f = "checks"
    THEN UNION { { <<w, SubSeq(check_commands, 1, n), results>> :
                     w \in CollectingScripts, results \in [1..n -> CommandResults] } :
                 n \in 0..MaxCommands }
    ELSE IF f = "compare_files"
    THEN LineLists \X LineLists
    ELSE IF f = "parse_interfaces_descriptions"
    THEN ParsingScripts \X IfaceOutputs \X {uplink_regex}
    ELSE IF f = "Junos_parse_interfaces_descriptions"
    THEN JunosOutputs \X {uplink_regex}
    ELSE IF f = "assessment"
    THEN AssessingScripts \X StatusMaps \X NeighborLists
    ELSE IF f = "parse_lldp_neighbors"
    THEN { <<output>> : output \in LldpOutputs }
    ELSE IF f = "save_table_to_file"
    THEN { <<changes>> : changes \in ChangeLists }
    ELSE IF f = "wrap_text"
    THEN WrapTexts \X (1..MaxWidth)
    ELSE { <<JoinLines(pre), JoinLines(post), check_commands>> :
             pre \in LineLists, post \in LineLists }

\* no script runs: only the call is in the state
FnInit ==
    /\ fn \in {"checks", "compare_files", "Junos_compare_files", "wrap_text",
               "save_table_to_file", "parse_interfaces_descriptions",
               "parse_lldp_neighbors", "Junos_parse_interfaces_descriptions",
               "assessment"}
    /\ fn_in \in FnInputs(fn)
    /\ fn_out = NotRun
    /\ wf = "none"
    /\ current_os = NoVersion
    /\ pc = "call"
    /\ outcome = "running"
    /\ firmware_list = <<>>
    /\ firmware_md5 = <<>>
    /\ idx = 0
    /\ dev = "none"
    /\ open_sessions = 0
    /\ total_links = 0
    /\ active_uplinks = 0
    /\ prompted = FALSE
    /\ answer = <<>>
    /\ pre_saved = FALSE
    /\ post_saved = FALSE
    /\ diff_saved = FALSE
    /\ success = FALSE
    /\ art = <<>>
    /\ probes = 0
    /\ wait = NoWait
    /\ files = {}

\* what a call leaves alone
mainvars == <<wf, current_os, pc, outcome, firmware_list, firmware_md5, idx, dev, open_sessions,
              total_links, active_uplinks, prompted, answer, pre_saved, post_saved,
              diff_saved, success, art, probes, wait, files>>

\* the snapshot collection runs over its command list
CallChecks ==
    /\ fn = "checks"
    /\ fn_out = NotRun
    /\ fn_out' = <<checks(fn_in[1], fn_in[2], fn_in[3])>>
    /\ UNCHANGED <<fn, fn_in, mainvars>>

\* the positional comparison of two line lists
CallCompareFiles ==
    /\ fn = "compare_files"
    /\ fn_out = NotRun
    /\ fn_out' = <<compare_files(fn_in[1], fn_in[2])>>
    /\ UNCHANGED <<fn, fn_in, mainvars>>

\* the structural comparison of two snapshot texts
CallJunosCompareFiles ==
    /\ fn = "Junos_compare_files"
    /\ fn_out = NotRun
    /\ fn_out' = <<Junos_compare_files(fn_in[1], fn_in[2], fn_in[3])>>
    /\ UNCHANGED <<fn, fn_in, mainvars>>

\* one cell text is wrapped to a column width
CallWrapText ==
    /\ fn = "wrap_text"
    /\ fn_out = NotRun
    /\ fn_out' = <<wrap_text(fn_in[1], fn_in[2])>>
    /\ UNCHANGED <<fn, fn_in, mainvars>>

\* the change table is written
CallSaveTableToFile ==
    /\ fn = "save_table_to_file"
    /\ fn_out = NotRun
    /\ fn_out' = <<save_table_to_file(fn_in[1])>>
    /\ UNCHANGED <<fn, fn_in, mainvars>>

\* the interface descriptions are parsed
CallParseInterfacesDescriptions ==
    /\ fn = "parse_interfaces_descriptions"
    /\ fn_out = NotRun
    /\ fn_out' = <<parse_interfaces_descriptions(fn_in[1], fn_in[2], fn_in[3])>>
    /\ UNCHANGED <<fn, fn_in, mainvars>>

\* the neighbor table is parsed
CallParseLldpNeighbors ==
    /\ fn = "parse_lldp_neighbors"
    /\ fn_out = NotRun
    /\ fn_out' = <<parse_lldp_neighbors(fn_in[1])>>
    /\ UNCHANGED <<fn, fn_in, mainvars>>

\* the structured interface output is parsed
CallJunosParseInterfacesDescriptions ==
    /\ fn = "Junos_parse_interfaces_descriptions"
    /\ fn_out = NotRun
    /\ fn_out' = <<Junos_parse_interfaces_descriptions(fn_in[1], fn_in[2])>>
    /\ UNCHANGED <<fn, fn_in, mainvars>>

\* the uplinks are counted
CallAssessment ==
    /\ fn = "assessment"
    /\ fn_out = NotRun
    /\ fn_out' = <<assessment(fn_in[1], fn_in[2], fn_in[3])>>
    /\ UNCHANGED <<fn, fn_in, mainvars>>

FnNext ==
    \/ CallAssessment
    \/ CallJunosParseInterfacesDescriptions
    \/ CallParseInterfacesDescriptions
    \/ CallParseLldpNeighbors
    \/ CallSaveTableToFile
    \/ CallWrapText
    \/ CallChecks
    \/ CallCompareFiles
    \/ CallJunosCompareFiles

FnSpec == FnInit /\ [][FnNext]_vars

\* the call of f has returned or raised
Called(f) == fn = f /\ fn_out # NotRun

\* C18: the collection yields one block per command of its list, in list
\* order; the block of a command that raised carries the error text, and
\* every command of the list has been called.
C18_OneBlockPerCommand ==
    Called("checks")
    => LET cmds == fn_in[2]
           results == fn_in[3]
           out == fn_out[1]
       IN  /\ ~out.raised
           /\ Len(out.check_output) = Len(cmds)
           /\ \A n \in 1..Len(cmds) :
                 /\ out.check_output[n].description = cmds[n].description
                 /\ results[n] = "raise" =>
                       /\ out.check_output[n].head = "Error executing"
                       /\ out.check_output[n].body = "exception text"
           /\ out.called = [n \in 1..Len(cmds) |-> cmds[n].method]

\* C19: compare_files returns, in increasing index order, exactly the pairs
\* of the indices below max(len(pre), len(post)) at which the two sides
\* differ, a side that has ended counting as the empty line.
C19_PositionalPairs ==
    Called("compare_files")
    => LET pre == fn_in[1]
           post == fn_in[2]
           out == fn_out[1]
           Side(data, n) == IF n \in DOMAIN data THEN data[n] ELSE <<>>
           Differing == {n \in DOMAIN pre \cup DOMAIN post : Side(pre, n) # Side(post, n)}
           Nth(k) == CHOOSE n \in Differing : Cardinality({o \in Differing : o < n}) = k - 1
       IN  /\ Len(out) = Cardinality(Differing)
           /\ \A k \in 1..Len(out) : out[k] = <<Side(pre, Nth(k)), Side(post, Nth(k))>>

\* C19 witness: the first lines are equal, post has ended before the second
\* line of pre, and the one pair returned is that line against the empty line
C19_Witness ==
    /\ Called("compare_files")
    /\ Len(fn_in[1]) = 2
    /\ Len(fn_in[2]) = 1
    /\ fn_in[1][1] = fn_in[2][1]
    /\ fn_out[1] = << <<fn_in[1][2], <<>> >> >>

\* C20: comparing a snapshot with itself yields no change: no pair from the
\* positional comparison, no row from the structural one.
C20_DiffReflexive ==
    /\ (Called("compare_files") /\ fn_in[1] = fn_in[2]) => fn_out[1] = <<>>
    /\ (Called("Junos_compare_files") /\ fn_in[1] = fn_in[2]) => fn_out[1].rows = <<>>

\* C21: the positional comparison of B with A has as many records as that of
\* A with B, and its k-th record is the k-th record of the latter with the
\* two fields swapped.
C21_PositionalSymmetry ==
    Called("compare_files")
    => LET forward == fn_out[1]
           backward == compare_files(fn_in[2], fn_in[1])
       IN  /\ Len(backward) = Len(forward)
           /\ \A k \in 1..Len(forward) :
                 backward[k] = <<forward[k][2], forward[k][1]>>

\* C21 witness: A has one line, B two, and both indices differ
C21_Witness ==
    /\ Called("compare_files")
    /\ Len(fn_in[1]) = 1
    /\ Len(fn_in[2]) = 2
    /\ Len(fn_out[1]) = 2
    /\ fn_out[1][2][1] = EmptyLine

\* a record whose two sides differ and are not both empty
IsChangeRecord(r) == r[1] # r[2] /\ (r[1] # <<>> \/ r[2] # <<>>)

\* C22: every record of the positional comparison and every row the
\* structural comparison hands to the table has two sides that differ, at
\* least one of them non-empty.
C22_ChangeRecords ==
    /\ Called("compare_files")
          => \A k \in 1..Len(fn_out[1]) : IsChangeRecord(fn_out[1][k])
    /\ Called("Junos_compare_files")
          => \A k \in 1..Len(fn_out[1].rows) : IsChangeRecord(fn_out[1].rows[k])

RECURSIVE OriginLoop(_, _, _, _)
\* for every position of old_changes (and of new_changes, which has the same
\* length) the entry of the edit script that filled it
OriginLoop(delta, cmds, n, origins) ==
    IF n > Len(delta) THEN origins
    ELSE IF NamesCommand(delta[n], cmds)
         THEN OriginLoop(delta, cmds, n + 1, origins \o <<n, n, n>>)
    ELSE IF StartsWith(delta[n], <<"-"," ">>) \/ StartsWith(delta[n], <<"+"," ">>)
         THEN OriginLoop(delta, cmds, n + 1, Append(origins, n))
    ELSE OriginLoop(delta, cmds, n + 1, origins)

\* C23: in the rows the structural comparison builds, every header line of
\* the edit script has a row in which it stands alone on both sides, and no
\* row has content on both sides that comes from two entries of the edit
\* script with an unchanged line between them (a deleted line next to the
\* inserted line that follows it directly counts as related).
C23_StructuralRows ==
    Called("Junos_compare_files")
    => LET delta == Differ(splitlines(fn_in[1]), splitlines(fn_in[2]))
           c == ChangesLoop(delta, fn_in[3], 1, <<>>, <<>>)
           origins == OriginLoop(delta, fn_in[3], 1, <<>>)
           rows == fn_out[1].rows
       IN  /\ \A k \in 1..Len(rows) :
                 /\ rows[k] = <<c.old_changes[k], c.new_changes[k + 1]>>
                 /\ (rows[k][1] # <<>> /\ rows[k][2] # <<>>)
                       => origins[k + 1] <= origins[k] + 1
           /\ \A n \in 1..Len(delta) :
                 NamesCommand(delta[n], fn_in[3])
                 => \E k \in 1..Len(rows) :
                       /\ rows[k] = <<delta[n], delta[n]>>
                       /\ origins[k] = n


RECURSIVE Concat(_)
\* the fragments put end to end
Concat(fragments) ==
    IF fragments = <<>> THEN <<>> ELSE Head(fragments) \o Concat(Tail(fragments))

\* C24: the fragments of wrap_text, put end to end, are the text that was
\* wrapped, for every text and every width of at least 1.
C24_WrapRoundTrip ==
    Called("wrap_text") /\ fn_in[2] >= 1 => Concat(fn_out[1]) = fn_in[1]


\* the number of rows of the k-th change record, and of the records before it
RowsOf(changes, k) ==
    LET pre_n == Len(wrap_text(changes[k][1], col_width))
        post_n == Len(wrap_text(changes[k][2], col_width))
    IN  IF pre_n >= post_n THEN pre_n ELSE post_n
RECURSIVE RowsBefore(_, _)
RowsBefore(changes, k) ==
    IF k <= 1 THEN 0 ELSE RowsBefore(changes, k - 1) + RowsOf(changes, k - 1)

\* C25: between the header and the bottom border the written table holds, for
\* each change record in turn, as many rows as the longer of its two fragment
\* lists; the i-th of them holds the i-th fragment of each side, blank where
\* that side has run out; nothing else stands between the records' rows.
C25_TableRows ==
    Called("save_table_to_file")
    => LET changes == fn_in[1]
           written == fn_out[1]
           data == SubSeq(written, 4, Len(written) - 1)
       IN  /\ Len(data) = RowsBefore(changes, Len(changes) + 1)
           /\ \A k \in 1..Len(changes) : \A i \in 1..RowsOf(changes, k) :
                 LET pre_lines == wrap_text(changes[k][1], col_width)
                     post_lines == wrap_text(changes[k][2], col_width)
                 IN  data[RowsBefore(changes, k) + i] =
                        <<"|", " ">>
                        \o (IF i <= Len(pre_lines) THEN LeftAlign(pre_lines[i], col_width)
                            ELSE Repeat(" ", col_width))
                        \o <<" ", "|", " ">>
                        \o (IF i <= Len(post_lines) THEN LeftAlign(post_lines[i], col_width)
                            ELSE Repeat(" ", col_width))
                        \o <<" ", "|", "\n">>

\* a one-fragment side next to a three-fragment side, followed by a second record
C25_Witness ==
    /\ Called("save_table_to_file")
    /\ Len(fn_in[1]) = 2
    /\ Len(wrap_text(fn_in[1][1][1], col_width)) = 1
    /\ Len(wrap_text(fn_in[1][1][2], col_width)) = 3
    /\ Len(wrap_text(fn_in[1][2][1], col_width)) = 2
    /\ Len(fn_out[1]) = 4 + 3 + 2


\* the data lines of an output, and the fields of the n-th of them
DataLines(output) == Tail(splitlines(output))

\* C26: for an output with a header line and at least one data line, the
\* parser returns, without raising, entries for exactly the interfaces named
\* by the data lines of at least 4 fields, one each.
C26_EntryPerFullLine ==
    Called("parse_interfaces_descriptions") /\ Len(splitlines(fn_in[2])) >= 2
    => LET data == DataLines(fn_in[2])
           full == {split(data[n])[1] : n \in {m \in 1..Len(data) : Len(split(data[m])) >= 4}}
           entries == fn_out[1].interfaces
       IN  /\ fn_out[1].raised = "none"
           /\ {entries[i].interface : i \in 1..Len(entries)} = full
           /\ Len(entries) = Cardinality(full)


\* a call of one of the parsers, and the output it was given
ParserCalled ==
    \/ Called("parse_interfaces_descriptions")
    \/ Called("Junos_parse_interfaces_descriptions")
    \/ Called("parse_lldp_neighbors")
ParserOutput == IF fn = "parse_interfaces_descriptions" THEN fn_in[2] ELSE fn_in[1]

\* C27: no call of a parser raises, whatever blank or short lines follow the
\* header, and an empty output gives an empty result.
C27_ParsersNeverRaise ==
    ParserCalled
    => /\ fn_out[1].raised = "none"
       /\ ParserOutput = <<>> => fn_out[1].interfaces = <<>>


Range(s) == {s[i] : i \in 1..Len(s)}

\* C28: the confirmed uplinks are among the active ones, these among the
\* candidates, these among the interfaces; the counts are ordered the same
\* way, and all four are zero when there is no interface and no neighbor.
C28_AssessmentChain ==
    Called("assessment")
    => LET a == fn_out[1]
       IN  /\ Range(a.confirmed_uplinks) \subseteq Range(a.active_uplinks)
           /\ Range(a.active_uplinks) \subseteq Range(a.uplink_candidates)
           /\ Range(a.uplink_candidates) \subseteq Range(InterfaceNames(fn_in[2]))
           /\ Len(a.confirmed_uplinks) <= Len(a.active_uplinks)
           /\ Len(a.active_uplinks) <= Len(a.uplink_candidates)
           /\ Len(a.uplink_candidates) <= a.total_links
           /\ (fn_in[2] = <<>> /\ fn_in[3] = <<>>)
              => /\ a.total_links = 0
                 /\ Len(a.uplink_candidates) = 0
                 /\ Len(a.active_uplinks) = 0
                 /\ Len(a.confirmed_uplinks) = 0

\* a neighbor on a candidate that is not active, next to a confirmed uplink
C28_Witness ==
    /\ Called("assessment")
    /\ fn_in[1] = "os_full"
    /\ Len(fn_out[1].confirmed_uplinks) = 1
    /\ Len(fn_out[1].uplink_candidates) = 2
    /\ \E k \in 1..Len(fn_in[3]) : fn_in[3][k] \notin Range(fn_out[1].active_uplinks)

\* C29: the candidates are exactly the interfaces flagged as uplinks, the
\* active ones exactly the candidates that are administratively up and
\* link-up, the confirmed ones exactly the active ones the neighbor list names.
C29_AssessmentSets ==
    Called("assessment")
    => LET a == fn_out[1]
           status == fn_in[2]
           flagged == {i \in 1..Len(status) : status[i].is_uplink}
           up == {i \in flagged : status[i].admin_up /\ status[i].link_up}
       IN  /\ Range(a.uplink_candidates) = {status[i].interface : i \in flagged}
           /\ Range(a.active_uplinks) = {status[i].interface : i \in up}
           /\ Range(a.confirmed_uplinks)
                = {status[i].interface : i \in up} \cap Range(fn_in[3])


\* C30: at no point are two sessions to the device open at once, and when
\* main has terminated, normally or by an abort, no session it opened is
\* still open.
C30_SessionsClosed ==
    /\ open_sessions <= 1
    /\ Terminated => open_sessions = 0


\* the step sends something to the device: a probe, a transfer, a checksum
\* command, an install or reboot request, the commands of a snapshot or of
\* the uplink check
IssuesOperation ==
    \/ \E i \in DOMAIN art :
          \/ art'[i].exists # art[i].exists
          \/ art'[i].transfers # art[i].transfers
          \/ art'[i].verified # art[i].verified
          \/ art'[i].installs # art[i].installs
          \/ art'[i].reboots # art[i].reboots
    \/ pre_saved' # pre_saved
    \/ post_saved' # post_saved
    \/ prompted' # prompted

OperationOnOpenHandle == IssuesOperation => dev = "open"

\* C31: every step that sends a command, a transfer or an install to the
\* device starts with a handle that was opened and not closed since.
C31_OperationsOnOpenHandle == [][OperationOnOpenHandle]_vars

\* C31 witness: os_full closed its session at the first reboot, and the
\* install for the second artifact went out over the reconnected session
C31_Witness ==
    /\ wf = "os_full"
    /\ Len(art) = 2
    /\ art[1].reboots = 1
    /\ art[1].reconnected
    /\ art[2].installs = 1


\* C32: an artifact for which a reboot request went out had its install
\* request report success before, in this run; an install that reported
\* failure or raised is followed by no reboot request for that artifact.
C32_RebootOnlyAfterInstall ==
    \A i \in DOMAIN art :
       /\ art[i].reboots > 0 => (art[i].installs > 0 /\ art[i].install_result = "ok")
       /\ art[i].install_result \notin {"none", "ok"} => art[i].reboots = 0

\* C32 witness: the first install failed and no reboot was requested, the run
\* went on, and the second install succeeded and was followed by the reboot
C32_Witness ==
    /\ Len(art) = 2
    /\ art[1].install_result \in {"false", "RpcError", "CommitError", "Exception"}
    /\ art[1].reboots = 0
    /\ art[2].install_result = "ok"
    /\ art[2].reboots = 1


\* the first firmware name carries no version, or the version the device reports
VersionStops ==
    LET extracted == ExtractVersion(firmware_md5[1].name)
    IN  extracted = NoVersion \/ current_os = extracted

\* C33: in Junos_pyez_os, when the first firmware name carries no version or
\* the version the device reports, the run never gets to the uplink check:
\* it ends with the session closed, no snapshot, transfer, install or reboot.
C33_VersionCheckExits ==
    (wf = "Junos_pyez_os" /\ VersionStops)
    => /\ pc \in {"connect", "version_check", "done"}
       /\ ~prompted /\ ~pre_saved /\ ~post_saved /\ ~diff_saved
       /\ files = {}
       /\ \A i \in DOMAIN art : art[i] = NoArt
       /\ (pc = "done" /\ dev # "none")
          => (dev = "closed" /\ open_sessions = 0 /\ outcome = "aborted")

\* C33 witness: the device reports the version of the file name and the run
\* has ended with the session closed
C33_Witness ==
    /\ wf = "Junos_pyez_os"
    /\ ExtractVersion(firmware_md5[1].name) # NoVersion
    /\ current_os = ExtractVersion(firmware_md5[1].name)
    /\ pc = "done"
    /\ dev = "closed"


\* every loop entry has been handled: the post-check has been reached
LoopCompleted ==
    /\ wf \in {"Junos_pyez_os", "os_full"}
    /\ pc \in {"post_check", "diff"} \/ post_saved \/ (Terminated /\ outcome = "completed")

\* C34: the loop entries are handled in list order, none touched before its
\* turn; once the loop has been completed every entry has had its own probe,
\* install request, reboot request, wait and reconnection, exactly one each,
\* after the one pre-check snapshot, and the diff comes after the post-check.
C34_OneCyclePerArtifact ==
    /\ \A j \in DOMAIN art : j > idx => art[j] = NoArt
    /\ \A j \in DOMAIN art : (j < idx /\ art[idx] # NoArt) => art[j].installs = 1
    /\ diff_saved => post_saved
    /\ LoopCompleted
       => /\ idx = Len(firmware_md5)
          /\ pre_saved
          /\ \A i \in DOMAIN art :
                /\ art[i].exists # "unknown"
                /\ art[i].installs = 1
                /\ art[i].reboots = 1
                /\ art[i].reachable
                /\ art[i].reconnected


\* C35: for every text and every width of at least 1 wrap_text has a result
\* before and after the call; it returns at least one fragment, no fragment is longer than the
\* width, and the loop ran at most once per character of the text.
C35_WrapTerminates ==
    /\ (fn = "wrap_text" /\ fn_out = NotRun /\ fn_in[2] >= 1)
       => Len(wrap_text(fn_in[1], fn_in[2])) <= Len(fn_in[1]) + 1
    /\ (Called("wrap_text") /\ fn_in[2] >= 1)
       => /\ Len(fn_out[1]) >= 1
          /\ Len(fn_out[1]) <= Len(fn_in[1]) + 1
          /\ \A k \in 1..Len(fn_out[1]) : Len(fn_out[1][k]) <= fn_in[2]

\* C35 witness: a text with a leading space, split at index 0 first and then
\* cut at the width where it has no space
C35_Witness ==
    /\ Called("wrap_text")
    /\ Len(fn_in[1]) > fn_in[2]
    /\ fn_in[1][1] = " "
    /\ Len(fn_out[1]) = 3
    /\ fn_out[1][1] = <<>>
    /\ Len(fn_out[1][2]) = fn_in[2]

====
